---- MODULE Spec2Model ----
(***************************************************************************)
(* Model of the tic-tac-toe session engine, class Game of src/game.ts.     *)
(*                                                                         *)
(* The state is the fields of one Game object.  Every public method is one *)
(* action.  Three trace variables record what the last call was (call),    *)
(* how it ended (result) and what it sent, in order (emitted); tieCount    *)
(* counts the tie broadcasts of the started game.  A method that           *)
(* dereferences a missing entry of `players` ends with a TypeError at that *)
(* point: what it assigned and sent before stays, what follows does not    *)
(* happen.                                                                 *)
(***************************************************************************)
EXTENDS Integers, Sequences, FiniteSets, TLC

(***************************************************************************)
(* Program constants                                                       *)
(***************************************************************************)
\* game.ts:7, Number(process.env.MAX_PLAYER_COUNT || 5); configured to 2 here
MAX_PLAYER_COUNT == 2
\* game.ts:11
UNMARKED == ""
\* what board[field] yields for an index that is not an element (JS undefined)
UNDEFINED == "undefined"
\* what getField returns out of bounds (game.ts:142)
NULL == "null"
\* the strings newPlayer throws (game.ts:88, game.ts:89)
GAME_FULL == "The game is full."
GAME_STARTED == "The game has already started."
\* dereference of players[id] for an id that is not a key
TYPE_ERROR == "TypeError"
OK == "ok"

(***************************************************************************)
(* Bounds of the model                                                     *)
(***************************************************************************)
\* how many player ids the id generator can hand out
MaxPlayerIds == 3
\* how many sockets may spectate
MaxSpectators == 1
\* the largest field index a caller asks for (the 3x3 board ends at 8, the
\* 2x2 board of the lobby at 3)
MaxField == 8

AllIds == <<"p1", "p2", "p3", "p4", "p5">>
AllSockets == <<"s1", "s2", "s3">>
PlayerIds == {AllIds[i] : i \in 1..MaxPlayerIds}
SocketIds == {AllSockets[i] : i \in 1..MaxSpectators}
Usernames == {"ann"}
Fields == 0..MaxField

VARIABLES players, spectators, board, boardSqrt, emptyFieldsLeft,
          gameStarted, turns, call, result, emitted, tieCount

vars == <<players, spectators, board, boardSqrt, emptyFieldsLeft,
          gameStarted, turns, call, result, emitted, tieCount>>

Range(s) == {s[i] : i \in 1..Len(s)}

\* delete obj[key]: the other keys keep their insertion order
Without(s, key) == SelectSeq(s, LAMBDA x : x # key)

(***************************************************************************)
(* Event fan-out                                                           *)
(***************************************************************************)
\* one delivery: recipient.emit(origin, event)
Emit(to, origin, event) == <<[to |-> to, origin |-> origin, event |-> event]>>

\* broadcast that forgets omitPlayersById
broadcast_toAll(ps, specs, origin, event, omit) ==
    LET rcpt == ps \o specs
    IN  [i \in 1..Len(rcpt) |-> [to |-> rcpt[i], origin |-> origin, event |-> event]]

\* Game.broadcast: the players not omitted, in insertion order, then every
\* spectator
broadcast(ps, specs, origin, event, omit) ==
    LET rcpt == SelectSeq(ps, LAMBDA x : x \notin omit) \o specs
    IN  [i \in 1..Len(rcpt) |-> [to |-> rcpt[i], origin |-> origin, event |-> event]]

(***************************************************************************)
(* Board                                                                   *)
(***************************************************************************)
\* drawBoard with boardSqrt * 2 fields instead of boardSqrt ** 2
drawBoard_twice(n) ==
    [boardSqrt |-> n + 1,
     emptyFieldsLeft |-> (n + 1) * 2,
     board |-> [i \in 1..((n + 1) * 2) |-> UNMARKED]]

\* Game.drawBoard
drawBoard(n) ==
    [boardSqrt |-> n + 1,
     emptyFieldsLeft |-> (n + 1) * (n + 1),
     board |-> [i \in 1..((n + 1) * (n + 1)) |-> UNMARKED]]

\* board[field + 1]: the cell after the one asked for
boardAt_next(b, field) ==
    IF field >= 0 /\ field < Len(b) - 1 THEN b[field + 2] ELSE UNDEFINED

\* this.board[field]
boardAt(b, field) ==
    IF field >= 0 /\ field < Len(b) THEN b[field + 1] ELSE UNDEFINED

\* getField that also refuses a column outside the row of the field
getField_rowAware(b, sqrt, field, rowOffset, columnOffset) ==
    LET index == field + sqrt * rowOffset + columnOffset
        column == (field % sqrt) + columnOffset
    IN  IF index >= 0 /\ index < Len(b) /\ column >= 0 /\ column < sqrt
        THEN b[index + 1] ELSE NULL

\* Game.getField
getField(b, sqrt, field, rowOffset, columnOffset) ==
    LET index == field + sqrt * rowOffset + columnOffset
    IN  IF index >= 0 /\ index < Len(b) THEN b[index + 1] ELSE NULL

\* a pair test that looks at its first cell only
bothAre_first(x, y, playerId) == x = playerId

\* (getField(..) === playerId && getField(..)) === playerId : the && yields
\* false, which is no player id, unless the first cell is playerId's
bothAre(x, y, playerId) == IF x = playerId THEN y = playerId ELSE FALSE

\* the offset pairs with the centred top-right/bottom-left pair left out
WinPairs_noAntiDiagonal ==
    << <<-1, -1, 1, 1>>,  <<-1, 0, 1, 0>>,  <<0, -1, 0, 1>>,
       <<-1, -1, -2, -2>>, <<-1, 0, -2, 0>>, <<-1, 1, -2, 2>>, <<0, 1, 0, 2>>,
       <<1, 1, 2, 2>>,    <<1, 0, 2, 0>>,   <<1, -1, 2, -2>>, <<0, -1, 0, -2>> >>

\* the 12 offset pairs of Game.isWinningMark, in source order
WinPairs ==
    << <<-1, -1, 1, 1>>,  <<-1, 0, 1, 0>>,  <<-1, 1, 1, -1>>, <<0, -1, 0, 1>>,
       <<-1, -1, -2, -2>>, <<-1, 0, -2, 0>>, <<-1, 1, -2, 2>>, <<0, 1, 0, 2>>,
       <<1, 1, 2, 2>>,    <<1, 0, 2, 0>>,   <<1, -1, 2, -2>>, <<0, -1, 0, -2>> >>

\* Game.isWinningMark
isWinningMark(b, sqrt, field, playerId) ==
    \E i \in 1..Len(WinPairs) :
        bothAre(getField(b, sqrt, field, WinPairs[i][1], WinPairs[i][2]),
                getField(b, sqrt, field, WinPairs[i][3], WinPairs[i][4]),
                playerId)

\* isTie that fires one cell early
isTie_early(left) == left <= 1

\* Game.isTie
isTie(left) == left = 0

(***************************************************************************)
(* Turn queue                                                              *)
(***************************************************************************)
\* currentTurn that reads the tail of the queue
currentTurn_last(t) == IF Len(t) > 0 THEN t[Len(t)] ELSE UNDEFINED

\* Game.currentTurn: this.turns[0]
currentTurn(t) == IF Len(t) > 0 THEN t[1] ELSE UNDEFINED

\* nextTurn that moves the tail to the head: unshift(pop()) for push(shift())
nextTurn_back(t) ==
    IF Len(t) > 0 THEN <<t[Len(t)]>> \o SubSeq(t, 1, Len(t) - 1) ELSE <<UNDEFINED>>

\* the queue after Game.nextTurn: this.turns.push(this.turns.shift())
nextTurn(t) == IF Len(t) > 0 THEN Append(Tail(t), t[1]) ELSE <<UNDEFINED>>

(***************************************************************************)
(* Init: the field initialisers of Game                                    *)
(***************************************************************************)
Init ==
    /\ players = <<>>
    /\ spectators = <<>>
    /\ board = <<>>
    /\ boardSqrt = 2
    /\ emptyFieldsLeft = 1
    /\ gameStarted = FALSE
    /\ turns = <<>>
    /\ call = [op |-> "new"]
    /\ result = OK
    /\ emitted = <<>>
    /\ tieCount = 0

(***************************************************************************)
(* Events                                                                  *)
(***************************************************************************)
EvBoard(b) == [name |-> "board", data |-> [board |-> b]]
EvMyTurn == [name |-> "my_turn"]
EvOpponentsTurn(id) == [name |-> "opponents_turn", data |-> [player |-> id]]
EvNewPlayer(username) == [name |-> "cg_new_player", data |-> [username |-> username]]
EvLeft == [name |-> "cg_left"]
EvMarked(field) == [name |-> "marked", data |-> [field |-> field]]
EvWinner == [name |-> "winner"]
EvLooser == [name |-> "looser"]
EvTie == [name |-> "tie"]
EvFieldOccupied(field, id) ==
    [name |-> "field_occupied", data |-> [field |-> field, player |-> id]]

(***************************************************************************)
(* Game.startGame: what it sends and how it ends, given the players, the   *)
(* spectators, the queue and the board at the time of the call.  The flag  *)
(* is set and the board is broadcast before players[currentTurn()] is      *)
(* dereferenced.                                                           *)
(***************************************************************************)
startGame(ps, specs, t, b, playerId) ==
    LET sent == broadcast(ps, specs, playerId, EvBoard(b), {})
        head == currentTurn(t)
    IN  IF head \in Range(ps)
        THEN [result |-> OK,
              emitted |-> sent \o Emit(head, playerId, EvMyTurn)
                          \o broadcast(ps, specs, playerId, EvOpponentsTurn(head), {head})]
        ELSE [result |-> TYPE_ERROR, emitted |-> sent]

\* the capacity test made on the count before the join
reachesCapacity_before(playerCount) == playerCount = MAX_PLAYER_COUNT

\* the test of game.ts:86
reachesCapacity(playerCount) == playerCount + 1 = MAX_PLAYER_COUNT

\* newPlayer without the test of gameStarted at game.ts:79
newPlayer_whileStarted(username) ==
    LET playerCount == Len(players)
    IN  /\ call' = [op |-> "newPlayer", username |-> username]
        /\ UNCHANGED <<spectators, tieCount>>
        /\ IF TRUE
           THEN IF playerCount < MAX_PLAYER_COUNT
                THEN LET newId == AllIds[Len(turns) + 1]
                         ps == Append(players, newId)
                         ts == Append(turns, newId)
                         sent == broadcast(ps, spectators, newId, EvNewPlayer(username), {})
                         drawn == drawBoard(playerCount + 1)
                         start == startGame(ps, spectators, ts, drawn.board, newId)
                     IN  /\ Len(turns) < MaxPlayerIds
                         /\ turns' = ts
                         /\ players' = ps
                         /\ boardSqrt' = drawn.boardSqrt
                         /\ emptyFieldsLeft' = drawn.emptyFieldsLeft
                         /\ board' = drawn.board
                         /\ IF reachesCapacity(playerCount)
                            THEN /\ gameStarted' = TRUE
                                 /\ emitted' = sent \o start.emitted
                                 /\ result' = start.result
                            ELSE /\ gameStarted' = gameStarted
                                 /\ emitted' = sent
                                 /\ result' = OK
                ELSE /\ result' = GAME_FULL
                     /\ emitted' = <<>>
                     /\ UNCHANGED <<players, board, boardSqrt, emptyFieldsLeft,
                                    gameStarted, turns>>
           ELSE /\ result' = GAME_STARTED
                /\ emitted' = <<>>
                /\ UNCHANGED <<players, board, boardSqrt, emptyFieldsLeft,
                               gameStarted, turns>>

(***************************************************************************)
(* Game.newPlayer(username, socket).  newId is the id the Player           *)
(* constructor generates: one that no player of this game ever had.  Ids   *)
(* are opaque, so the generator is taken to hand them out in the order of  *)
(* AllIds; every id handed out is in turns, which nothing removes from.    *)
(***************************************************************************)
newPlayer(username) ==
    LET playerCount == Len(players)
    IN  /\ call' = [op |-> "newPlayer", username |-> username]
        /\ UNCHANGED <<spectators, tieCount>>
        /\ IF ~gameStarted
           THEN IF playerCount < MAX_PLAYER_COUNT
                THEN LET newId == AllIds[Len(turns) + 1]
                         ps == Append(players, newId)
                         ts == Append(turns, newId)
                         sent == broadcast(ps, spectators, newId, EvNewPlayer(username), {})
                         drawn == drawBoard(playerCount + 1)
                         start == startGame(ps, spectators, ts, drawn.board, newId)
                     IN  /\ Len(turns) < MaxPlayerIds
                         /\ turns' = ts
                         /\ players' = ps
                         /\ boardSqrt' = drawn.boardSqrt
                         /\ emptyFieldsLeft' = drawn.emptyFieldsLeft
                         /\ board' = drawn.board
                         /\ IF reachesCapacity(playerCount)
                            THEN /\ gameStarted' = TRUE
                                 /\ emitted' = sent \o start.emitted
                                 /\ result' = start.result
                            ELSE /\ gameStarted' = gameStarted
                                 /\ emitted' = sent
                                 /\ result' = OK
                ELSE /\ result' = GAME_FULL
                     /\ emitted' = <<>>
                     /\ UNCHANGED <<players, board, boardSqrt, emptyFieldsLeft,
                                    gameStarted, turns>>
           ELSE /\ result' = GAME_STARTED
                /\ emitted' = <<>>
                /\ UNCHANGED <<players, board, boardSqrt, emptyFieldsLeft,
                               gameStarted, turns>>

\* removePlayer that takes the leaver out of the queue as well
removePlayer_fromTurns(playerId) ==
    /\ playerId \in Range(players)
    /\ call' = [op |-> "removePlayer", playerId |-> playerId]
    /\ emitted' = broadcast(players, spectators, playerId, EvLeft, {})
    /\ players' = Without(players, playerId)
    /\ turns' = Without(turns, playerId)
    /\ result' = OK
    /\ UNCHANGED <<spectators, board, boardSqrt, emptyFieldsLeft, gameStarted,
                   tieCount>>

\* removePlayer with the delete made before the broadcast
removePlayer_deleteFirst(playerId) ==
    /\ playerId \in Range(players)
    /\ call' = [op |-> "removePlayer", playerId |-> playerId]
    /\ players' = Without(players, playerId)
    /\ emitted' = broadcast(players', spectators, playerId, EvLeft, {})
    /\ result' = OK
    /\ UNCHANGED <<spectators, board, boardSqrt, emptyFieldsLeft, gameStarted,
                   turns, tieCount>>

(***************************************************************************)
(* Game.removePlayer(playerId), called for a current player                *)
(***************************************************************************)
removePlayer(playerId) ==
    /\ playerId \in Range(players)
    /\ call' = [op |-> "removePlayer", playerId |-> playerId]
    /\ emitted' = broadcast(players, spectators, playerId, EvLeft, {})
    /\ players' = Without(players, playerId)
    /\ result' = OK
    /\ UNCHANGED <<spectators, board, boardSqrt, emptyFieldsLeft, gameStarted,
                   turns, tieCount>>

(***************************************************************************)
(* Game.addSpectator(socket): spectators[socket.socketId] = socket; a key  *)
(* that is already present keeps its place                                 *)
(***************************************************************************)
addSpectator(socketId) ==
    /\ call' = [op |-> "addSpectator", socketId |-> socketId]
    /\ spectators' = IF socketId \in Range(spectators) THEN spectators
                     ELSE Append(spectators, socketId)
    /\ emitted' = <<>>
    /\ result' = OK
    /\ UNCHANGED <<players, board, boardSqrt, emptyFieldsLeft, gameStarted,
                   turns, tieCount>>

(***************************************************************************)
(* Game.removeSpectator(socketId)                                          *)
(***************************************************************************)
removeSpectator(socketId) ==
    /\ call' = [op |-> "removeSpectator", socketId |-> socketId]
    /\ spectators' = Without(spectators, socketId)
    /\ emitted' = <<>>
    /\ result' = OK
    /\ UNCHANGED <<players, board, boardSqrt, emptyFieldsLeft, gameStarted,
                   turns, tieCount>>

(***************************************************************************)
(* Game.mark(field, playerId), called by a current player.  call records   *)
(* the arguments the call reads: a caller who is not up is answered at     *)
(* game.ts:151-156, before field is looked at.                             *)
(***************************************************************************)
mark(field, playerId) ==
    /\ playerId \in Range(players)
    /\ call' = IF currentTurn(turns) # playerId
               THEN [op |-> "mark", playerId |-> playerId]
               ELSE [op |-> "mark", field |-> field, playerId |-> playerId]
    /\ UNCHANGED <<players, spectators, boardSqrt, gameStarted>>
    /\ IF currentTurn(turns) # playerId
       THEN /\ emitted' = Emit(playerId, playerId, EvOpponentsTurn(currentTurn(turns)))
            /\ result' = OK
            /\ UNCHANGED <<board, emptyFieldsLeft, turns, tieCount>>
       ELSE IF boardAt(board, field) = UNMARKED
            THEN LET left == emptyFieldsLeft - 1
                     b == [board EXCEPT ![field + 1] = playerId]
                     sent == broadcast(players, spectators, playerId, EvMarked(field), {})
                             \o broadcast(players, spectators, playerId, EvBoard(b), {})
                 IN  /\ emptyFieldsLeft' = left
                     /\ board' = b
                     /\ IF isWinningMark(b, boardSqrt, field, playerId)
                        THEN /\ emitted' = sent \o Emit(playerId, playerId, EvWinner)
                                  \o broadcast(players, spectators, playerId, EvLooser, {playerId})
                             /\ result' = OK
                             /\ UNCHANGED <<turns, tieCount>>
                        ELSE IF isTie(left)
                             THEN /\ emitted' = sent
                                       \o broadcast(players, spectators, playerId, EvTie, {})
                                  /\ result' = OK
                                  /\ tieCount' = IF gameStarted THEN tieCount + 1 ELSE tieCount
                                  /\ UNCHANGED turns
                             ELSE LET ts == nextTurn(turns)
                                      next == currentTurn(ts)
                                  IN  /\ turns' = ts
                                      /\ UNCHANGED tieCount
                                      /\ IF next \in Range(players)
                                         THEN /\ emitted' = sent
                                                   \o Emit(next, playerId, EvMyTurn)
                                                   \o broadcast(players, spectators, playerId,
                                                                EvOpponentsTurn(next), {next})
                                              /\ result' = OK
                                         ELSE /\ emitted' = sent
                                              /\ result' = TYPE_ERROR
            ELSE /\ emitted' = Emit(playerId, playerId,
                                    EvFieldOccupied(field, boardAt(board, field)))
                 /\ result' = OK
                 /\ UNCHANGED <<board, emptyFieldsLeft, turns, tieCount>>

Next ==
    \/ \E username \in Usernames : newPlayer(username)
    \/ \E playerId \in PlayerIds : removePlayer(playerId)
    \/ \E socketId \in SocketIds : addSpectator(socketId)
    \/ \E socketId \in SocketIds : removeSpectator(socketId)
    \/ \E field \in Fields, playerId \in PlayerIds : mark(field, playerId)

Spec == Init /\ [][Next]_vars

(***************************************************************************)
(* Vocabulary of the properties                                            *)
(***************************************************************************)
\* the names of the events a call sent
Names(em) == {em[i].event.name : i \in 1..Len(em)}

\* who was sent the event called name
Recipients(em, name) ==
    {em[i].to : i \in {j \in 1..Len(em) : em[j].event.name = name}}

\* how many deliveries of the event called name
Deliveries(em, name) == Cardinality({j \in 1..Len(em) : em[j].event.name = name})

\* the step is a call of mark by a current player
IsMark == call'.op = "mark" /\ call'.playerId \in Range(players)

\* the step is a mark that the code accepts: the caller is at the head of
\* the queue and the cell is empty
IsAcceptedMark ==
    /\ IsMark
    /\ Len(turns) > 0 /\ turns[1] = call'.playerId
    /\ call'.field < Len(board) /\ board[call'.field + 1] = UNMARKED

(***************************************************************************)
(* C1: a mark by a participant who is not the head of the turn queue       *)
(* changes nothing (board, remaining-empty counter, turn queue,            *)
(* participants, phase) and sends exactly one event: opponents_turn,       *)
(* naming the head, to the caller.                                         *)
(***************************************************************************)
C1_NotYourTurn ==
    [][(IsMark /\ Len(turns) > 0 /\ turns[1] # call'.playerId)
       => /\ UNCHANGED <<board, boardSqrt, emptyFieldsLeft, turns, players,
                         spectators, gameStarted>>
          /\ emitted' = <<[to |-> call'.playerId, origin |-> call'.playerId,
                           event |-> [name |-> "opponents_turn",
                                      data |-> [player |-> turns[1]]]]>>]_vars

\* a started game in which the player who is not up has just tried to mark
C1_Witness ==
    /\ gameStarted
    /\ call.op = "mark"
    /\ call.playerId # turns[1]
    /\ Names(emitted) = {"opponents_turn"}
    /\ Len(spectators) > 0

(***************************************************************************)
(* C2: a mark by the turn holder on a cell that is not empty leaves the    *)
(* board, the remaining-empty counter and the turn queue as they are and   *)
(* sends exactly one event: field_occupied, naming the field and its       *)
(* occupant, to the caller.                                                *)
(***************************************************************************)
C2_FieldOccupied ==
    [][(/\ IsMark
        /\ Len(turns) > 0 /\ turns[1] = call'.playerId
        /\ call'.field < Len(board) /\ board[call'.field + 1] # UNMARKED)
       => /\ UNCHANGED <<board, boardSqrt, emptyFieldsLeft, turns, players,
                         spectators, gameStarted>>
          /\ emitted' = <<[to |-> call'.playerId, origin |-> call'.playerId,
                           event |-> [name |-> "field_occupied",
                                      data |-> [field |-> call'.field,
                                                player |-> board[call'.field + 1]]]]>>]_vars

\* the turn holder has just asked for a cell the opponent holds
C2_Witness ==
    /\ gameStarted
    /\ call.op = "mark"
    /\ call.playerId = turns[1]
    /\ Names(emitted) = {"field_occupied"}
    /\ emitted[1].event.data.player \notin {call.playerId, UNDEFINED}

(***************************************************************************)
(* C3: on an accepted mark by p that wins, winner goes to p and to nobody  *)
(* else, looser goes to every other participant and every observer and     *)
(* not to p, and neither tie nor my_turn nor opponents_turn is sent.       *)
(***************************************************************************)
C3_WinnerLooser ==
    [][(IsAcceptedMark
        /\ isWinningMark(board', boardSqrt, call'.field, call'.playerId))
       => /\ Recipients(emitted', "winner") = {call'.playerId}
          /\ Deliveries(emitted', "winner") = 1
          /\ Recipients(emitted', "looser")
               = (Range(players) \ {call'.playerId}) \cup Range(spectators)
          /\ Names(emitted') \cap {"tie", "my_turn", "opponents_turn"} = {}]_vars

\* a win in a started game with the opponent and an observer present
C3_Witness ==
    /\ gameStarted
    /\ call.op = "mark"
    /\ "winner" \in Names(emitted)
    /\ Len(players) = MAX_PLAYER_COUNT
    /\ Len(spectators) > 0
    /\ Recipients(emitted, "looser") = (Range(players) \ {call.playerId}) \cup Range(spectators)

(***************************************************************************)
(* C4: in a started session tie is broadcast at most once; it is broadcast *)
(* exactly on an accepted mark that brings the remaining-empty counter to  *)
(* 0 and does not win; a mark that fills the board and wins sends winner   *)
(* (and looser to the others) and no tie.                                  *)
(***************************************************************************)
C4_TieOnce ==
    /\ [](gameStarted => tieCount <= 1)
    /\ [][gameStarted =>
            /\ ("tie" \in Names(emitted'))
                 <=> (/\ IsAcceptedMark
                      /\ emptyFieldsLeft' = 0
                      /\ ~isWinningMark(board', boardSqrt, call'.field, call'.playerId))
            /\ (/\ IsAcceptedMark
                /\ emptyFieldsLeft' = 0
                /\ isWinningMark(board', boardSqrt, call'.field, call'.playerId))
               => /\ "tie" \notin Names(emitted')
                  /\ "winner" \in Names(emitted')
                  /\ Recipients(emitted', "looser")
                       = (Range(players) \ {call'.playerId}) \cup Range(spectators)]_vars

\* the board of a started game has just been filled without a win
C4_Witness ==
    /\ gameStarted
    /\ tieCount = 1
    /\ "tie" \in Names(emitted)
    /\ \A i \in 1..Len(board) : board[i] # UNMARKED
    /\ Names(emitted) \cap {"winner", "looser"} = {}

(***************************************************************************)
(* C5: after every accepted mark that neither wins nor fills the board the *)
(* queue is rotated by one, my_turn goes to the new head and               *)
(* opponents_turn, naming the new head, goes to every other participant    *)
(* and every observer and not to the new head, also after participants     *)
(* have left.                                                              *)
(***************************************************************************)
C5_TurnAdvances ==
    [][(/\ IsAcceptedMark
        /\ ~isWinningMark(board', boardSqrt, call'.field, call'.playerId)
        /\ emptyFieldsLeft' # 0)
       => /\ turns' = Append(Tail(turns), turns[1])
          /\ Recipients(emitted', "my_turn") = {turns'[1]}
          /\ Recipients(emitted', "opponents_turn")
               = (Range(players) \ {turns'[1]}) \cup Range(spectators)
          /\ \A i \in 1..Len(emitted') :
               emitted'[i].event.name = "opponents_turn"
               => emitted'[i].event.data.player = turns'[1]]_vars

(***************************************************************************)
(* C6: the phase only goes from Lobby to Active: gameStarted never goes    *)
(* back to false, it becomes true only in a newPlayer call that adds a     *)
(* participant and brings their number to MAX_PLAYER_COUNT, and every such *)
(* call makes it true.                                                     *)
(***************************************************************************)
C6_OneWayStart ==
    [][/\ gameStarted => gameStarted'
       /\ (~gameStarted /\ gameStarted')
          => /\ call'.op = "newPlayer"
             /\ Len(players') = Len(players) + 1
             /\ Len(players') = MAX_PLAYER_COUNT
       /\ (/\ call'.op = "newPlayer"
           /\ Len(players') = Len(players) + 1
           /\ Len(players') = MAX_PLAYER_COUNT)
          => gameStarted']_vars

\* a participant has left the started game and a later join was turned away:
\* fewer participants than the capacity, and still started
C6_Witness ==
    /\ gameStarted
    /\ Len(players) < MAX_PLAYER_COUNT
    /\ call.op = "newPlayer"
    /\ result = GAME_STARTED

(***************************************************************************)
(* C7: a join attempted when the number of participants equals the         *)
(* capacity throws "The game is full.", not "The game has already          *)
(* started.".                                                              *)
(***************************************************************************)
C7_JoinAtCapacityIsFull ==
    [][(call'.op = "newPlayer" /\ Len(players) = MAX_PLAYER_COUNT)
       => result' = GAME_FULL]_vars

(***************************************************************************)
(* C8: a mark attempted while the game has not started is rejected: it     *)
(* raises no error and changes neither the board nor the remaining-empty   *)
(* counter nor the turn queue, whoever calls, the head of the queue        *)
(* included.                                                               *)
(***************************************************************************)
C8_LobbyMarkRejected ==
    [][(~gameStarted /\ IsMark)
       => /\ UNCHANGED <<board, emptyFieldsLeft, turns>>
          /\ result' # TYPE_ERROR]_vars

(***************************************************************************)
(* C9: capacity 2, A up first; A marks 4, B marks 0, then A marks 8.       *)
(***************************************************************************)
\* the step of the scenario: the game has started with two participants, the
\* board holds the caller A's mark on 4 and the other participant's mark on 0
\* and nothing else, A is up, and A calls mark(8, A)
C9_Step ==
    /\ gameStarted
    /\ call'.op = "mark"
    /\ MAX_PLAYER_COUNT = 2
    /\ Len(players) = 2
    /\ call'.playerId \in Range(players)
    /\ Len(turns) > 0 /\ turns[1] = call'.playerId
    /\ call'.field = 8
    /\ Len(board) = 9
    /\ board[5] = call'.playerId
    /\ board[1] \in Range(players) \ {call'.playerId}
    /\ \A i \in {2, 3, 4, 6, 7, 8, 9} : board[i] = UNMARKED

\* C9 as claimed: A's mark on 8 wins, winner goes to A and looser to B
C9_Index8Wins ==
    [][C9_Step
       => /\ Recipients(emitted', "winner") = {call'.playerId}
          /\ board[1] \in Recipients(emitted', "looser")]_vars

\* C9 as amended: A's mark on 8 is accepted and does not win (cell 0 is B's):
\* no winner, looser or tie is sent, and the turn passes to B
C9_Index8DoesNotWin ==
    [][C9_Step
       => /\ board' = [board EXCEPT ![9] = call'.playerId]
          /\ Names(emitted') \cap {"winner", "looser", "tie"} = {}
          /\ turns' = Append(Tail(turns), turns[1])
          /\ turns'[1] = board[1]
          /\ Recipients(emitted', "my_turn") = {board[1]}
          /\ call'.playerId \in Recipients(emitted', "opponents_turn")]_vars

\* the scenario has been played: A holds 4 and 8, B holds 0, A has just
\* marked 8
C9_Witness ==
    \E A \in PlayerIds, B \in PlayerIds :
        /\ A # B
        /\ gameStarted
        /\ Range(players) = {A, B}
        /\ board = [i \in 1..9 |-> IF i \in {5, 9} THEN A
                                   ELSE IF i = 1 THEN B ELSE UNMARKED]
        /\ call = [op |-> "mark", field |-> 8, playerId |-> A]
        /\ "marked" \in Names(emitted)

(***************************************************************************)
(* C10: right after every join that added a participant, n being the       *)
(* number of participants now (1 <= n <= capacity), the board side is      *)
(* n + 1, the board has (n + 1)^2 cells, all empty, and the                *)
(* remaining-empty counter is (n + 1)^2.                                   *)
(***************************************************************************)
C10_BoardAfterJoin ==
    (call.op = "newPlayer" /\ result \notin {GAME_FULL, GAME_STARTED})
    => LET n == Len(players)
       IN  /\ n \in 1..MAX_PLAYER_COUNT
           /\ boardSqrt = n + 1
           /\ Len(board) = (n + 1) * (n + 1)
           /\ \A i \in 1..Len(board) : board[i] = UNMARKED
           /\ emptyFieldsLeft = (n + 1) * (n + 1)

\* the join that filled the game: two participants, a 3x3 board
C10_Witness ==
    /\ call.op = "newPlayer"
    /\ result = OK
    /\ Len(players) = 2
    /\ boardSqrt = 3
    /\ Len(board) = 9

\* how many cells of b hold the empty marker
EmptyCells(b) == Cardinality({i \in 1..Len(b) : b[i] = UNMARKED})

(***************************************************************************)
(* C11: in every reachable state, the freshly constructed game included,   *)
(* the remaining-empty counter equals the number of board cells that hold  *)
(* the empty marker, and every accepted mark lowers the counter by 1.      *)
(***************************************************************************)
C11_CounterMatchesBoard ==
    /\ [](emptyFieldsLeft = EmptyCells(board))
    /\ [][IsAcceptedMark => emptyFieldsLeft' = emptyFieldsLeft - 1]_vars

(***************************************************************************)
(* C12: when the game starts, the turn queue has no duplicates and holds   *)
(* exactly the current participants, whatever joins and leaves came        *)
(* before.                                                                 *)
(***************************************************************************)
C12_QueueIsParticipantsAtStart ==
    [][(~gameStarted /\ gameStarted')
       => /\ Cardinality(Range(turns')) = Len(turns')
          /\ Range(turns') = Range(players')]_vars

(***************************************************************************)
(* The turn queue on its own: Game.nextTurn called again and again on a    *)
(* queue of distinct player ids (no id is handed out twice).  call keeps   *)
(* the queue the calls started from and their number, result the value     *)
(* the last call returned; the other fields are those of a new Game.       *)
(***************************************************************************)
\* how many times nextTurn is called in a row
MaxRotations == 7

\* the queues of 1..MaxPlayerIds distinct ids
Queues ==
    {q \in UNION {[1..n -> PlayerIds] : n \in 1..MaxPlayerIds} :
        \A i \in 1..Len(q), j \in 1..Len(q) : q[i] = q[j] => i = j}

InitTurns ==
    /\ turns \in Queues
    /\ call = [op |-> "new", start |-> turns, k |-> 0]
    /\ players = <<>>
    /\ spectators = <<>>
    /\ board = <<>>
    /\ boardSqrt = 2
    /\ emptyFieldsLeft = 1
    /\ gameStarted = FALSE
    /\ result = OK
    /\ emitted = <<>>
    /\ tieCount = 0

\* one call of Game.nextTurn: rotate, then return this.currentTurn()
nextTurnCall ==
    /\ call.k < MaxRotations
    /\ turns' = nextTurn(turns)
    /\ result' = currentTurn(turns')
    /\ call' = [call EXCEPT !.op = "nextTurn", !.k = @ + 1]
    /\ UNCHANGED <<players, spectators, board, boardSqrt, emptyFieldsLeft,
                   gameStarted, emitted, tieCount>>

NextTurns == nextTurnCall

SpecTurns == InitTurns /\ [][NextTurns]_vars

(***************************************************************************)
(* C13: round-robin.  After k calls of nextTurn on a queue of length L the *)
(* head is the original head exactly when k mod L = 0; the queue is the    *)
(* original one rotated by k (same ids, same cyclic order); each call      *)
(* moves the head to the tail and returns the new head.                    *)
(***************************************************************************)
C13_RoundRobin ==
    /\ [](LET L == Len(call.start)
          IN  /\ (turns[1] = call.start[1]) <=> (call.k % L = 0)
              /\ Len(turns) = L
              /\ \A i \in 1..L : turns[i] = call.start[((i - 1 + call.k) % L) + 1]
              /\ call.op = "nextTurn" => result = turns[1])
    /\ [][/\ turns' = Tail(turns) \o <<turns[1]>>
          /\ result' = turns'[1]]_vars

\* a queue of three after four calls: one full round and one more
C13_Witness ==
    /\ call.op = "nextTurn"
    /\ Len(turns) = 3
    /\ call.k = 4
    /\ turns[1] = call.start[2]
    /\ result = call.start[2]

(***************************************************************************)
(* The win test on its own: Game.isWinningMark asked about any cell and    *)
(* any player id of any board that drawBoard can have made (side 2 up to   *)
(* MAX_PLAYER_COUNT + 1) and marks can have filled.  call keeps the        *)
(* arguments, result the value returned.                                   *)
(***************************************************************************)
\* the ids that can stand on a board: marks are made by current players
BoardIds == {AllIds[i] : i \in 1..MAX_PLAYER_COUNT}

InitBoard ==
    /\ boardSqrt \in 2..(MAX_PLAYER_COUNT + 1)
    /\ board \in [1..(boardSqrt * boardSqrt) -> {UNMARKED} \cup BoardIds]
    /\ emptyFieldsLeft = Cardinality({i \in 1..Len(board) : board[i] = UNMARKED})
    /\ call = [op |-> "new"]
    /\ players = <<>>
    /\ spectators = <<>>
    /\ gameStarted = FALSE
    /\ turns = <<>>
    /\ result = OK
    /\ emitted = <<>>
    /\ tieCount = 0

\* one call of Game.isWinningMark
isWinningMarkCall(field, playerId) ==
    /\ field < Len(board)
    /\ call' = [op |-> "isWinningMark", field |-> field, playerId |-> playerId]
    /\ result' = isWinningMark(board, boardSqrt, field, playerId)
    /\ UNCHANGED <<players, spectators, board, boardSqrt, emptyFieldsLeft,
                   gameStarted, turns, emitted, tieCount>>

NextBoard ==
    \E field \in 0..((MAX_PLAYER_COUNT + 1) * (MAX_PLAYER_COUNT + 1) - 1),
       playerId \in BoardIds : isWinningMarkCall(field, playerId)

SpecBoard == InitBoard /\ [][NextBoard]_vars

\* the occupant of the cell rowOffset rows and columnOffset columns from
\* index, found through the linear index alone; out of bounds only when
\* that index is outside [0, side^2)
Resolves(b, side, index, rowOffset, columnOffset) ==
    LET linear == index + side * rowOffset + columnOffset
    IN  IF linear \in 0..(side * side - 1) THEN b[linear + 1] ELSE NULL

\* vertical, horizontal and the two diagonals, one direction of each
HalfDirections == {<<-1, -1>>, <<-1, 0>>, <<-1, 1>>, <<0, -1>>}

\* the eight directions
Directions == {d \in (-1..1) \X (-1..1) : d # <<0, 0>>}

\* one of the 4 centred pairs (dr,dc)/(-dr,-dc) or of the 8 one-directional
\* pairs (dr,dc)/(2dr,2dc) has both cells resolving to id
SomePairResolves(b, side, index, id) ==
    \/ \E d \in HalfDirections :
         /\ Resolves(b, side, index, d[1], d[2]) = id
         /\ Resolves(b, side, index, 0 - d[1], 0 - d[2]) = id
    \/ \E d \in Directions :
         /\ Resolves(b, side, index, d[1], d[2]) = id
         /\ Resolves(b, side, index, 2 * d[1], 2 * d[2]) = id

InStraightRun(b, side, index, id) ==
    LET row == index \div side
        col == index % side
    IN  \E d \in HalfDirections, first \in -2..0 :
          \A j \in 0..2 :
            LET r == row + (first + j) * d[1]
                c == col + (first + j) * d[2]
            IN  /\ r \in 0..(side - 1)
                /\ c \in 0..(side - 1)
                /\ b[r * side + c + 1] = id

(***************************************************************************)
(* C15: a mark is reported as winning only if it completes a straight run  *)
(* of three: when an accepted mark by p on cell c sends winner, three      *)
(* cells owned by p, c among them, are consecutive in one row, one column  *)
(* or one diagonal of the grid, with no wrapping across a row boundary.    *)
(***************************************************************************)
C15_WinIsStraightRun ==
    [][(IsAcceptedMark /\ "winner" \in Names(emitted'))
       => InStraightRun(board', boardSqrt, call'.field, call'.playerId)]_vars

(***************************************************************************)
(* C16: removePlayer(p) of a current player sends cg_left, and nothing     *)
(* else, once to every player, p included, and to every spectator; then p  *)
(* is no longer a player, the other players are the same, and turns (p     *)
(* keeps its place), board (p's marks stay), boardSqrt, emptyFieldsLeft    *)
(* and gameStarted are unchanged.                                          *)
(***************************************************************************)
C16_LeaveFrame ==
    [][call'.op = "removePlayer"
       => /\ call'.playerId \in Range(players)
          /\ Names(emitted') = {"cg_left"}
          /\ Recipients(emitted', "cg_left") = Range(players) \cup Range(spectators)
          /\ Len(emitted') = Len(players) + Len(spectators)
          /\ players' = Without(players, call'.playerId)
          /\ call'.playerId \notin Range(players')
          /\ UNCHANGED <<turns, board, boardSqrt, emptyFieldsLeft, gameStarted>>]_vars

\* a player with a mark on the board has left a started game watched by a
\* spectator: it is still queued, its mark is still there
C16_Witness ==
    /\ call.op = "removePlayer"
    /\ gameStarted
    /\ call.playerId \notin Range(players)
    /\ call.playerId \in Range(turns)
    /\ call.playerId \in Range(board)
    /\ Len(spectators) > 0
    /\ Recipients(emitted, "cg_left") = Range(players) \cup Range(spectators) \cup {call.playerId}

(***************************************************************************)
(* C17: every newPlayer called once gameStarted holds throws "The game has *)
(* already started."; a newPlayer that is refused leaves players, turns,   *)
(* board, boardSqrt, emptyFieldsLeft and gameStarted as they were and      *)
(* sends nothing; so boardSqrt and the length of board never change once   *)
(* gameStarted holds.                                                      *)
(***************************************************************************)
C17_StartedJoinRefused ==
    [][/\ (gameStarted /\ call'.op = "newPlayer") => result' = GAME_STARTED
       /\ (call'.op = "newPlayer" /\ result' \in {GAME_STARTED, GAME_FULL})
          => /\ emitted' = <<>>
             /\ UNCHANGED <<players, spectators, turns, board, boardSqrt,
                            emptyFieldsLeft, gameStarted>>
       /\ gameStarted => boardSqrt' = boardSqrt /\ Len(board') = Len(board)]_vars

\* a join was refused in a started game that had room (a player has left)
\* and marks on its board
C17_Witness ==
    /\ call.op = "newPlayer"
    /\ result = GAME_STARTED
    /\ emitted = <<>>
    /\ gameStarted
    /\ Len(players) < MAX_PLAYER_COUNT
    /\ Len(board) = boardSqrt * boardSqrt
    /\ \E i \in 1..Len(board) : board[i] # UNMARKED

\* the deliveries from-th to to-th of em are all of the event called name,
\* one to each member of whom
Segment(em, from, to, name, whom) ==
    /\ \A i \in from..to : em[i].event.name = name
    /\ {em[i].to : i \in from..to} = whom
    /\ to - from + 1 = Cardinality(whom)

(***************************************************************************)
(* C18: a newPlayer that adds a player and brings the number of players to *)
(* MAX_PLAYER_COUNT sends, in this order, cg_new_player to every player    *)
(* (the new one included) and every spectator, board (the new, empty       *)
(* board) to the same, my_turn to the head of turns, and opponents_turn    *)
(* naming the head to everyone but the head; a newPlayer that adds a       *)
(* player below MAX_PLAYER_COUNT sends the cg_new_player broadcast only.   *)
(***************************************************************************)
C18_JoinEventOrder ==
    [][(call'.op = "newPlayer" /\ Len(players') > Len(players))
       => LET everyone == Range(players') \cup Range(spectators')
              N == Cardinality(everyone)
              head == turns'[1]
          IN  /\ Len(emitted') >= N
              /\ Segment(emitted', 1, N, "cg_new_player", everyone)
              /\ IF Len(players') = MAX_PLAYER_COUNT
                 THEN /\ Len(emitted') = 3 * N
                      /\ Segment(emitted', N + 1, 2 * N, "board", everyone)
                      /\ \A i \in (N + 1)..(2 * N) :
                            emitted'[i].event.data.board = board'
                      /\ Segment(emitted', 2 * N + 1, 2 * N + 1, "my_turn", {head})
                      /\ Segment(emitted', 2 * N + 2, 3 * N, "opponents_turn",
                                 everyone \ {head})
                      /\ \A i \in (2 * N + 2)..(3 * N) :
                            emitted'[i].event.data.player = head
                 ELSE Len(emitted') = N]_vars

(***************************************************************************)
(* C19: the rotation never skips a player who has left.  In a started      *)
(* game, a head of turns who leaves stays the head; and while the head of  *)
(* turns is not a current player, every step leaves it so: turns, board    *)
(* and emptyFieldsLeft keep their values, a mark by a current player is    *)
(* answered with opponents_turn only, and no marked, winner, looser or     *)
(* tie is sent.  The condition holding after every such step, this lasts   *)
(* for ever.                                                               *)
(***************************************************************************)
C19_DepartedHeadStalls ==
    [][(gameStarted /\ Len(turns) > 0)
       => /\ (call'.op = "removePlayer" /\ call'.playerId = turns[1])
             => /\ turns'[1] = turns[1]
                /\ turns'[1] \notin Range(players')
          /\ turns[1] \notin Range(players)
             => /\ gameStarted'
                /\ turns' = turns
                /\ turns'[1] \notin Range(players')
                /\ board' = board
                /\ emptyFieldsLeft' = emptyFieldsLeft
                /\ Names(emitted') \cap {"marked", "winner", "looser", "tie"} = {}
                /\ call'.op = "mark" => Names(emitted') = {"opponents_turn"}]_vars

\* a remaining player's mark has just been turned down in a started game
\* whose head of turns has left, with marks on the board and a cell free
C19_Witness ==
    /\ gameStarted
    /\ turns[1] \notin Range(players)
    /\ call.op = "mark"
    /\ call.playerId \in Range(players)
    /\ Recipients(emitted, "opponents_turn") = {call.playerId}
    /\ emptyFieldsLeft > 0
    /\ emptyFieldsLeft < Len(board)

(***************************************************************************)
(* C20: every straight three-in-a-row is found.  When an accepted mark by  *)
(* p on cell c leaves three cells of p, c among them as the middle or as   *)
(* an end, consecutive in one row, one column or one diagonal of the       *)
(* grid, winner is sent, to p and to nobody else.                          *)
(***************************************************************************)
C20_StraightRunWins ==
    [][IsAcceptedMark
       => \/ Recipients(emitted', "winner") = {call'.playerId}
          \/ ~InStraightRun(board', boardSqrt, call'.field, call'.playerId)]_vars

\* in a started game the mark on the centre of the 3x3 board has completed
\* the diagonal from top right to bottom left, and winner went to the marker
C20_Witness ==
    /\ gameStarted
    /\ call.op = "mark"
    /\ Recipients(emitted, "winner") = {call.playerId}
    /\ call.field = 4
    /\ boardSqrt = 3
    /\ board[3] = call.playerId /\ board[5] = call.playerId /\ board[7] = call.playerId
    /\ \A i \in {1, 2, 4, 6, 8, 9} : board[i] # call.playerId

====
